---------------------------- MODULE Spec2Model ----------------------------
(***************************************************************************)
(* A model of AI_Price_optima/data/ingest.py: the two cleaning transforms  *)
(* clean_sales and clean_inventory, and the orchestrator main.             *)
(*                                                                         *)
(* A DataFrame is a record [columns, rows]: the set of column names and    *)
(* the sequence of rows, each row a function from the column names to      *)
(* cells.  A cell is NaN (pandas' null: NaN, None, NaT), a Number (an      *)
(* exact rational n/d, so that the median of an even count and the product *)
(* Quantity * UnitPrice are exact; floating-point rounding is not          *)
(* modelled), a Text (an object-dtype string) or a Timestamp.              *)
(***************************************************************************)
EXTENDS Integers, Sequences, FiniteSets, TLC

VARIABLES
    pc,             \* position of the caller / of main
    fn,             \* the transform a caller of the module invokes
    df,             \* the DataFrame handed to clean_sales or clean_inventory
    cleaned,        \* what that call returned or raised
    recleaned,      \* what clean_sales returned on its own output
    fs,             \* the files: path -> content
    fs0,            \* the files as they were when main was entered
    disk,           \* what a write to each output path meets in this run
    stdout,         \* the status lines printed so far
    sales_df, sales_cleaned, inv_df, inv_cleaned,   \* main's locals
    exc             \* the exception being handled (e of lines 78 and 94)

callerVars == <<fn, df, cleaned, recleaned>>
mainVars == <<fs, fs0, disk, stdout,
              sales_df, sales_cleaned, inv_df, inv_cleaned, exc>>
vars == <<pc, callerVars, mainVars>>

-----------------------------------------------------------------------------
(* Bounds of the model *)

MaxRows == 3        \* rows of an input table
MaxPriceRows == 4   \* rows of an input table whose rows differ in UnitPrice alone
MaxMissing == 2     \* required columns an input table lacks

-----------------------------------------------------------------------------
(* Cells *)

NaN == [kind |-> "nan"]
Text(s) == [kind |-> "text", s |-> s]
Timestamp(ymd) == [kind |-> "timestamp", ymd |-> ymd]

RECURSIVE GCD(_, _)
GCD(a, b) == IF b = 0 THEN a ELSE GCD(b, a % b)

Abs(i) == IF i < 0 THEN -i ELSE i

\* The rational n/d (d > 0) in lowest terms.
Number(n, d) ==
    LET g == GCD(Abs(n), d)
    IN  [kind |-> "number", n |-> n \div g, d |-> d \div g]

Int2Num(i) == Number(i, 1)

IsNull(c) == c.kind = "nan"
IsNumber(c) == c.kind = "number"

Less(a, b) == a.n * b.d < b.n * a.d
LessEq(a, b) == a.n * b.d <= b.n * a.d

\* Series * Series, element-wise: NaN wherever either operand is NaN.
Mul(a, b) ==
    IF IsNumber(a) /\ IsNumber(b) THEN Number(a.n * b.n, a.d * b.d) ELSE NaN

Mean2(a, b) == Number(a.n * b.d + b.n * a.d, 2 * a.d * b.d)

-----------------------------------------------------------------------------
(* Module-level constants of ingest.py *)

SALES_REQUIRED ==
    {"OrderID", "OrderDate", "CustomerID", "ProductID", "Quantity",
     "UnitPrice", "Discount", "Tax", "ShippingCost", "TotalAmount",
     "PaymentMethod", "OrderStatus", "City", "State", "Country"}

INVENTORY_REQUIRED ==
    {"ProductID", "ProductName", "Category", "Brand", "SellerID"}

\* The column lists of the loops at lines 35, 49 and 62, and of lines 41-43.
NUMERIC_COLS ==
    <<"Quantity", "UnitPrice", "Discount", "Tax", "ShippingCost", "TotalAmount">>
ZERO_FILL_COLS == <<"Discount", "Tax", "ShippingCost">>
SALES_CATEGORICAL == <<"PaymentMethod", "OrderStatus", "City", "State", "Country">>
INVENTORY_FILL == <<"ProductName", "Category", "Brand", "SellerID">>

UNKNOWN == Text("Unknown")

-----------------------------------------------------------------------------
(* pandas operations used by the transforms *)

\* pd.to_numeric(..., errors="coerce") on one cell.  Text is parsed as Python
\* parses a float literal; the texts the inputs are drawn from are listed,
\* every other text here is unparsable.
ParseNumber(s) ==
    CASE s = "0" -> Int2Num(0)
      [] s = "1" -> Int2Num(1)
      [] s = "2" -> Int2Num(2)
      [] s = "10" -> Int2Num(10)
      [] s = "2.5" -> Number(5, 2)
      [] OTHER -> NaN

to_numeric(c) ==
    CASE c.kind = "number" -> c
      [] c.kind = "text" -> ParseNumber(c.s)
      [] OTHER -> NaN

\* pd.to_datetime(..., errors="coerce") on one cell: ISO dates parse, any
\* other text becomes NaT, a Timestamp stays what it is.
ParseDate(s) ==
    CASE s = "2024-01-05" -> Timestamp(20240105)
      [] s = "2024-02-29" -> Timestamp(20240229)
      [] OTHER -> NaN

to_datetime(c) ==
    CASE c.kind = "timestamp" -> c
      [] c.kind = "text" -> ParseDate(c.s)
      [] OTHER -> NaN

\* df[col], a Series: the column's cells in row order.
Col(rows, col) == [i \in DOMAIN rows |-> rows[i][col]]

\* df[col] = series, on the rows.
SetCol(rows, col, series) ==
    [i \in DOMAIN rows |-> [rows[i] EXCEPT ![col] = series[i]]]

series_to_numeric(series) == [i \in DOMAIN series |-> to_numeric(series[i])]
series_to_datetime(series) == [i \in DOMAIN series |-> to_datetime(series[i])]

\* Series.fillna(value) with a scalar: every NaN cell becomes value.
fillna(series, value) ==
    [i \in DOMAIN series |-> IF IsNull(series[i]) THEN value ELSE series[i]]

\* Series.fillna(other) with a Series: a NaN cell takes other's cell of the
\* same row.
fillna_series(series, other) ==
    [i \in DOMAIN series |-> IF IsNull(series[i]) THEN other[i] ELSE series[i]]

\* Series * Series.
series_mul(a, b) == [i \in DOMAIN a |-> Mul(a[i], b[i])]

\* DataFrame.drop_duplicates(): a row is dropped when an earlier row agrees
\* with it on every column (keep="first"; NaN counts as equal to NaN).
RECURSIVE KeepFirst(_, _)
KeepFirst(rows, i) ==
    IF i > Len(rows) THEN <<>>
    ELSE (IF \E j \in 1..(i - 1) : rows[j] = rows[i] THEN <<>> ELSE <<rows[i]>>)
         \o KeepFirst(rows, i + 1)

RECURSIVE KeepUnique(_, _)
KeepUnique(rows, i) ==
    IF i > Len(rows) THEN <<>>
    ELSE (IF \E j \in DOMAIN rows : j # i /\ rows[j] = rows[i]
          THEN <<>> ELSE <<rows[i]>>)
         \o KeepUnique(rows, i + 1)

drop_duplicates_keep_false(d) == [d EXCEPT !.rows = KeepUnique(@, 1)]

drop_duplicates(d) == [d EXCEPT !.rows = KeepFirst(@, 1)]

\* The non-null cells of a Series, in row order (median skips NaN).
RECURSIVE dropna(_, _)
dropna(series, i) ==
    IF i > Len(series) THEN <<>>
    ELSE (IF IsNull(series[i]) THEN <<>> ELSE <<series[i]>>)
         \o dropna(series, i + 1)

\* The k-th smallest of values: fewer than k values lie below it and at
\* least k do not lie above it.
kth(values, k) ==
    values[CHOOSE i \in DOMAIN values :
        /\ Cardinality({j \in DOMAIN values : Less(values[j], values[i])}) < k
        /\ Cardinality({j \in DOMAIN values : LessEq(values[j], values[i])}) >= k]

\* Series.median(): the middle one of the non-null values in order, the mean
\* of the two middle ones for an even count, NaN when there is none.
median_lower(series) ==
    IF Len(dropna(series, 1)) = 0 THEN NaN
    ELSE kth(dropna(series, 1), (Len(dropna(series, 1)) + 1) \div 2)

median(series) ==
    IF Len(dropna(series, 1)) = 0 THEN NaN
    ELSE IF Len(dropna(series, 1)) % 2 = 1
    THEN kth(dropna(series, 1), (Len(dropna(series, 1)) + 1) \div 2)
    ELSE Mean2(kth(dropna(series, 1), Len(dropna(series, 1)) \div 2),
               kth(dropna(series, 1), Len(dropna(series, 1)) \div 2 + 1))

-----------------------------------------------------------------------------
(* clean_sales, lines 26-52 *)

\* Lines 27 and 55: the required columns the frame lacks.
missing_cols_any(required, columns) ==
    (required \ columns) \cup (columns \ required)

missing_cols(required, columns) == required \ columns

\* raise ValueError(f"... missing columns: {missing_cols}") / return df.
Raised(missing) == [raised |-> TRUE, missing |-> missing,
                    df |-> [columns |-> {}, rows |-> <<>>]]
Returned(d) == [raised |-> FALSE, missing |-> {}, df |-> d]

\* Lines 35-36: for col in [...]: df[col] = pd.to_numeric(df[col], errors="coerce").
RECURSIVE to_numeric_each(_, _)
to_numeric_each(d, cols) ==
    IF cols = <<>> THEN d
    ELSE to_numeric_each(
            [d EXCEPT !.rows =
                SetCol(@, Head(cols), series_to_numeric(Col(@, Head(cols))))],
            Tail(cols))

\* Lines 49-50 and 62-63: for col in [...]: df[col] = df[col].fillna("Unknown").
RECURSIVE fillna_each(_, _, _)
fillna_each(d, cols, value) ==
    IF cols = <<>> THEN d
    ELSE fillna_each(
            [d EXCEPT !.rows =
                SetCol(@, Head(cols), fillna(Col(@, Head(cols)), value))],
            Tail(cols), value)

\* Line 34.
parse_OrderDate(d) ==
    [d EXCEPT !.rows =
        SetCol(@, "OrderDate", series_to_datetime(Col(@, "OrderDate")))]

\* Lines 34-36.
type_corrections(d) == to_numeric_each(parse_OrderDate(d), NUMERIC_COLS)

\* Line 39.
fill_Quantity(d) ==
    [d EXCEPT !.rows =
        SetCol(@, "Quantity", fillna(Col(@, "Quantity"), Int2Num(1)))]

\* Line 40: the median is taken of the column as it is before the fill.
fill_UnitPrice(d) ==
    [d EXCEPT !.rows =
        SetCol(@, "UnitPrice",
               fillna(Col(@, "UnitPrice"), median(Col(@, "UnitPrice"))))]

\* Lines 41-43.
fill_zero(d) == fillna_each(d, ZERO_FILL_COLS, Int2Num(0))

\* Lines 44-46: the product is taken row-wise of the columns as filled above.
fill_TotalAmount_UnitPrice(d) ==
    [d EXCEPT !.rows =
        SetCol(@, "TotalAmount",
               fillna_series(Col(@, "TotalAmount"), Col(@, "UnitPrice")))]

fill_TotalAmount(d) ==
    [d EXCEPT !.rows =
        SetCol(@, "TotalAmount",
               fillna_series(Col(@, "TotalAmount"),
                             series_mul(Col(@, "Quantity"), Col(@, "UnitPrice"))))]

\* Lines 49-50.
fill_categorical(d) == fillna_each(d, SALES_CATEGORICAL, UNKNOWN)

\* Lines 31-50, on a frame that has every required column.
clean_sales_rows(d) ==
    fill_categorical(
     fill_TotalAmount(
      fill_zero(
       fill_UnitPrice(
        fill_Quantity(
         type_corrections(
          drop_duplicates(d)))))))

clean_sales_lenient(d) ==
    IF missing_cols(SALES_REQUIRED, d.columns) # {} THEN Returned(d)
    ELSE Returned(clean_sales_rows(d))

clean_sales(d) ==
    IF missing_cols(SALES_REQUIRED, d.columns) # {}
    THEN Raised(missing_cols(SALES_REQUIRED, d.columns))
    ELSE Returned(clean_sales_rows(d))

-----------------------------------------------------------------------------
(* clean_inventory, lines 54-65 *)

fill_inventory(d) == fillna_each(d, INVENTORY_FILL, UNKNOWN)

clean_inventory(d) ==
    IF missing_cols(INVENTORY_REQUIRED, d.columns) # {}
    THEN Raised(missing_cols(INVENTORY_REQUIRED, d.columns))
    ELSE Returned(fill_inventory(drop_duplicates(d)))

-----------------------------------------------------------------------------
(* The input tables the transforms are applied to *)

NONE == [kind |-> "none"]

BaseSalesRow ==
    [c \in SALES_REQUIRED |->
        CASE c = "OrderDate" -> Text("2024-01-05")
          [] c \in {"Quantity", "UnitPrice"} -> Int2Num(2)
          [] c \in {"Discount", "Tax", "ShippingCost"} -> Int2Num(1)
          [] c = "TotalAmount" -> Int2Num(5)
          [] OTHER -> Text("x")]

SalesRow(q, u, t) ==
    [BaseSalesRow EXCEPT !["Quantity"] = q, !["UnitPrice"] = u,
                         !["TotalAmount"] = t]

\* Every cell a fill rule applies to is empty, and the date too.
BlankSalesRow ==
    [c \in SALES_REQUIRED |->
        IF c \in {"OrderID", "CustomerID", "ProductID"} THEN Text("x") ELSE NaN]

\* Unparsable text in every typed column.
MessySalesRow ==
    [c \in SALES_REQUIRED |->
        IF c \in {"OrderID", "CustomerID", "ProductID"} THEN Text("x")
        ELSE IF c = "OrderDate" THEN Text("next week")
        ELSE Text("n/a")]

\* Rows differing in Quantity, UnitPrice and TotalAmount, empty or not in
\* every combination the fill rules tell apart.
SalesRows ==
    {BaseSalesRow, BlankSalesRow, MessySalesRow,
     SalesRow(NaN, Int2Num(2), Int2Num(5)),
     SalesRow(Int2Num(1), Int2Num(2), Int2Num(5)),
     SalesRow(Int2Num(2), NaN, Int2Num(5)),
     SalesRow(Int2Num(2), Int2Num(5), Int2Num(5)),
     SalesRow(Int2Num(2), Int2Num(2), NaN),
     SalesRow(Int2Num(2), Int2Num(5), NaN),
     SalesRow(NaN, Int2Num(2), NaN),
     SalesRow(Int2Num(2), NaN, NaN),
     SalesRow(NaN, Text("10"), NaN),                \* numbers read as text
     SalesRow(Text("2"), Int2Num(2), Int2Num(5))}

\* Rows differing in UnitPrice alone, for the median.
PriceRows ==
    {SalesRow(Int2Num(2), u, NaN) :
        u \in {NaN, Text("n/a"), Int2Num(2), Int2Num(5), Int2Num(10)}}

InventoryRows ==
    {[c \in INVENTORY_REQUIRED |->
        CASE c = "ProductID" -> id
          [] c = "ProductName" -> name
          [] OTHER -> rest] :
     id \in {NaN, Text("P1")}, name \in {NaN, Text("Widget")},
     rest \in {NaN, Text("x")}}

\* All sequences over S of length 0..n.
RECURSIVE SeqsUpTo(_, _)
SeqsUpTo(S, n) ==
    IF n = 0 THEN {<<>>}
    ELSE LET shorter == SeqsUpTo(S, n - 1)
         IN  shorter \cup {Append(q, x) : q \in {r \in shorter : Len(r) = n - 1},
                                          x \in S}

Frame(columns, rows) == [columns |-> columns, rows |-> rows]

SalesFrames == {Frame(SALES_REQUIRED, rows) : rows \in SeqsUpTo(SalesRows, MaxRows)}

PriceFrames ==
    {Frame(SALES_REQUIRED, rows) : rows \in SeqsUpTo(PriceRows, MaxPriceRows)}

InventoryFrames ==
    {Frame(INVENTORY_REQUIRED, rows) : rows \in SeqsUpTo(InventoryRows, MaxRows)}

\* Frames lacking up to MaxMissing required columns, with or without a column
\* that is not required, holding no row or one.
Restrict(row, columns) ==
    [c \in columns |-> IF c \in DOMAIN row THEN row[c] ELSE Text("note")]

PartialFrames(required, row) ==
    {Frame(columns, rows) :
        columns \in {(required \ lost) \cup extra :
                        lost \in {m \in SUBSET required : Cardinality(m) <= MaxMissing},
                        extra \in {{}, {"Notes"}}},
        rows \in {<<>>}}
    \cup
    {Frame((required \ lost) \cup extra, <<Restrict(row, (required \ lost) \cup extra)>>) :
        lost \in {m \in SUBSET required : Cardinality(m) <= MaxMissing},
        extra \in {{}, {"Notes"}}}

-----------------------------------------------------------------------------
(* A caller of the module: clean_sales or clean_inventory applied to a frame, *)
(* and clean_sales applied once more to what it returned.                     *)

MainIdle ==
    /\ fs = NONE /\ fs0 = NONE /\ disk = NONE /\ stdout = <<>>
    /\ sales_df = NONE /\ sales_cleaned = NONE
    /\ inv_df = NONE /\ inv_cleaned = NONE /\ exc = NONE

Init ==
    /\ pc = "call"
    /\ \/ fn = "clean_sales" /\ df \in SalesFrames
       \/ fn = "clean_sales" /\ df \in PriceFrames
       \/ fn = "clean_sales" /\ df \in PartialFrames(SALES_REQUIRED, BaseSalesRow)
       \/ fn = "clean_inventory" /\ df \in InventoryFrames
       \/ fn = "clean_inventory"
            /\ df \in PartialFrames(INVENTORY_REQUIRED,
                                    [c \in INVENTORY_REQUIRED |-> Text("x")])
    /\ cleaned = NONE /\ recleaned = NONE
    /\ MainIdle

CallCleanSales ==
    /\ pc = "call" /\ fn = "clean_sales"
    /\ cleaned' = clean_sales(df)
    /\ pc' = IF cleaned'.raised THEN "raised" ELSE "returned"
    /\ UNCHANGED <<fn, df, recleaned, mainVars>>

CallCleanInventory ==
    /\ pc = "call" /\ fn = "clean_inventory"
    /\ cleaned' = clean_inventory(df)
    /\ pc' = IF cleaned'.raised THEN "raised" ELSE "returned"
    /\ UNCHANGED <<fn, df, recleaned, mainVars>>

CallCleanSalesAgain ==
    /\ pc = "returned" /\ fn = "clean_sales"
    /\ recleaned' = clean_sales(cleaned.df)
    /\ pc' = "returned_again"
    /\ UNCHANGED <<fn, df, cleaned, mainVars>>

Next == CallCleanSales \/ CallCleanInventory \/ CallCleanSalesAgain

Spec == Init /\ [][Next]_vars

-----------------------------------------------------------------------------
(* main, lines 67-97 *)

\* os.path.join(RAW_DIR, ...), os.path.join(PROCESSED_DIR, ...) and
\* os.path.join(today_dir, ...): the six files main reads or writes.  The
\* three directories exist: lines 9-14 create them when the module is loaded.
SALES_RAW == "data/raw/sales_data.csv"
INV_RAW == "data/raw/inventory_data.csv"
SALES_PROCESSED == "data/processed/sales_cleaned.csv"
SALES_DAILY == "data/daily_ingest/<today>/sales_cleaned.csv"
INV_PROCESSED == "data/processed/inventory_cleaned.csv"
INV_DAILY == "data/daily_ingest/<today>/inventory_cleaned.csv"

Outputs == {SALES_PROCESSED, SALES_DAILY, INV_PROCESSED, INV_DAILY}
Paths == {SALES_RAW, INV_RAW} \cup Outputs

\* What a path holds: nothing, text that is no CSV table, the CSV text of a
\* frame, or what a write that failed half-way left behind.
ABSENT == [kind |-> "absent"]
UNREADABLE == [kind |-> "unreadable"]
TRUNCATED == [kind |-> "truncated"]
Csv(frame) == [kind |-> "csv", frame |-> frame]

\* Exceptions, all of them subclasses of Exception.
FileNotFoundError == [type |-> "FileNotFoundError", missing |-> {}]
ParserError == [type |-> "ParserError", missing |-> {}]
OSError == [type |-> "OSError", missing |-> {}]
ValueError(missing) == [type |-> "ValueError", missing |-> missing]

EXCEPTION_SUBCLASSES ==
    {"FileNotFoundError", "ParserError", "OSError", "ValueError"}

\* The status lines.
Line(text, e) == [text |-> text, e |-> e]
SALES_LOADED == Line("Sales data loaded successfully", NONE)
SALES_SAVED == Line("Sales data cleaned and saved", NONE)
SALES_ERROR == "Error processing sales data:"
INV_LOADED == Line("Inventory data loaded successfully", NONE)
INV_SAVED == Line("Inventory data cleaned and saved", NONE)
INV_SKIPPED == Line("inventory_data.csv not found - skipping inventory ingestion", NONE)
INV_ERROR == "Error processing inventory data:"
COMPLETED == Line("Ingestion completed", NONE)

\* pd.read_csv(path): the frame, or the exception it raises.
read_csv(files, path) ==
    CASE files[path].kind = "csv" ->
            [raised |-> FALSE, exc |-> NONE, df |-> files[path].frame]
      [] files[path].kind = "absent" ->
            [raised |-> TRUE, exc |-> FileNotFoundError, df |-> NONE]
      [] OTHER ->
            [raised |-> TRUE, exc |-> ParserError, df |-> NONE]

\* DataFrame.to_csv(path, index=False) meeting outcome: the file is written
\* whole, or cannot be opened, or is opened and the write breaks off.
to_csv(files, path, frame, outcome) ==
    CASE outcome = "ok" -> [files EXCEPT ![path] = Csv(frame)]
      [] outcome = "refused" -> files
      [] OTHER -> [files EXCEPT ![path] = TRUNCATED]

to_csv_never_raises(outcome) == FALSE

to_csv_raises(outcome) == outcome # "ok"

\* Lines 78 and 94, except Exception as e: where control goes when e is
\* raised inside the try block.
sales_handler_narrow(e) ==
    IF e.type = "FileNotFoundError" THEN "sales_except" ELSE "crashed"

sales_handler(e) ==
    IF e.type \in EXCEPTION_SUBCLASSES THEN "sales_except" ELSE "crashed"

inventory_handler(e) ==
    IF e.type \in EXCEPTION_SUBCLASSES THEN "inv_except" ELSE "crashed"

\* Line 83, if os.path.exists(inv_path).
inventory_branch_always_read(files) == "inv_read"

inventory_branch(files) ==
    IF files[INV_RAW].kind # "absent" THEN "inv_read" ELSE "inv_skip"

print(line) == stdout' = Append(stdout, line)

\* Lines 69-71.
SalesRead ==
    /\ pc = "sales_read"
    /\ LET r == read_csv(fs, SALES_RAW)
       IN  IF r.raised
           THEN /\ exc' = r.exc
                /\ pc' = sales_handler(r.exc)
                /\ UNCHANGED <<sales_df, stdout>>
           ELSE /\ sales_df' = r.df
                /\ print(SALES_LOADED)
                /\ pc' = "sales_clean"
                /\ UNCHANGED exc
    /\ UNCHANGED <<callerVars, fs, fs0, disk, sales_cleaned, inv_df, inv_cleaned>>

\* Line 73.
SalesClean ==
    /\ pc = "sales_clean"
    /\ LET r == clean_sales(sales_df)
       IN  IF r.raised
           THEN /\ exc' = ValueError(r.missing)
                /\ pc' = sales_handler(ValueError(r.missing))
                /\ UNCHANGED sales_cleaned
           ELSE /\ sales_cleaned' = r.df
                /\ pc' = "sales_write_processed"
                /\ UNCHANGED exc
    /\ UNCHANGED <<callerVars, fs, fs0, disk, stdout, sales_df, inv_df, inv_cleaned>>

\* Line 74.
SalesWriteProcessed ==
    /\ pc = "sales_write_processed"
    /\ fs' = to_csv(fs, SALES_PROCESSED, sales_cleaned, disk[SALES_PROCESSED])
    /\ IF to_csv_raises(disk[SALES_PROCESSED])
       THEN exc' = OSError /\ pc' = sales_handler(OSError)
       ELSE pc' = "sales_write_daily" /\ UNCHANGED exc
    /\ UNCHANGED <<callerVars, fs0, disk, stdout,
                   sales_df, sales_cleaned, inv_df, inv_cleaned>>

\* Line 75.
SalesWriteDaily ==
    /\ pc = "sales_write_daily"
    /\ fs' = to_csv(fs, SALES_DAILY, sales_cleaned, disk[SALES_DAILY])
    /\ IF to_csv_raises(disk[SALES_DAILY])
       THEN exc' = OSError /\ pc' = sales_handler(OSError)
       ELSE pc' = "sales_saved" /\ UNCHANGED exc
    /\ UNCHANGED <<callerVars, fs0, disk, stdout,
                   sales_df, sales_cleaned, inv_df, inv_cleaned>>

\* Line 76.
SalesSaved ==
    /\ pc = "sales_saved"
    /\ print(SALES_SAVED)
    /\ pc' = "inv_exists"
    /\ UNCHANGED <<callerVars, fs, fs0, disk,
                   sales_df, sales_cleaned, inv_df, inv_cleaned, exc>>

\* Lines 78-79.
SalesExcept ==
    /\ pc = "sales_except"
    /\ print(Line(SALES_ERROR, exc))
    /\ pc' = "inv_exists"
    /\ UNCHANGED <<callerVars, fs, fs0, disk,
                   sales_df, sales_cleaned, inv_df, inv_cleaned, exc>>

\* Lines 82-83.
InventoryExists ==
    /\ pc = "inv_exists"
    /\ pc' = inventory_branch(fs)
    /\ UNCHANGED <<callerVars, mainVars>>

\* Lines 84-85.
InventoryRead ==
    /\ pc = "inv_read"
    /\ LET r == read_csv(fs, INV_RAW)
       IN  IF r.raised
           THEN /\ exc' = r.exc
                /\ pc' = inventory_handler(r.exc)
                /\ UNCHANGED <<inv_df, stdout>>
           ELSE /\ inv_df' = r.df
                /\ print(INV_LOADED)
                /\ pc' = "inv_clean"
                /\ UNCHANGED exc
    /\ UNCHANGED <<callerVars, fs, fs0, disk, sales_df, sales_cleaned, inv_cleaned>>

\* Line 87.
InventoryClean ==
    /\ pc = "inv_clean"
    /\ LET r == clean_inventory(inv_df)
       IN  IF r.raised
           THEN /\ exc' = ValueError(r.missing)
                /\ pc' = inventory_handler(ValueError(r.missing))
                /\ UNCHANGED inv_cleaned
           ELSE /\ inv_cleaned' = r.df
                /\ pc' = "inv_write_processed"
                /\ UNCHANGED exc
    /\ UNCHANGED <<callerVars, fs, fs0, disk, stdout, sales_df, sales_cleaned, inv_df>>

\* Line 88.
InventoryWriteProcessed ==
    /\ pc = "inv_write_processed"
    /\ fs' = to_csv(fs, INV_PROCESSED, inv_cleaned, disk[INV_PROCESSED])
    /\ IF to_csv_raises(disk[INV_PROCESSED])
       THEN exc' = OSError /\ pc' = inventory_handler(OSError)
       ELSE pc' = "inv_write_daily" /\ UNCHANGED exc
    /\ UNCHANGED <<callerVars, fs0, disk, stdout,
                   sales_df, sales_cleaned, inv_df, inv_cleaned>>

\* Line 89.
InventoryWriteDaily ==
    /\ pc = "inv_write_daily"
    /\ fs' = to_csv(fs, INV_DAILY, inv_cleaned, disk[INV_DAILY])
    /\ IF to_csv_raises(disk[INV_DAILY])
       THEN exc' = OSError /\ pc' = inventory_handler(OSError)
       ELSE pc' = "inv_saved" /\ UNCHANGED exc
    /\ UNCHANGED <<callerVars, fs0, disk, stdout,
                   sales_df, sales_cleaned, inv_df, inv_cleaned>>

\* Line 90.
InventorySaved ==
    /\ pc = "inv_saved"
    /\ print(INV_SAVED)
    /\ pc' = "finish"
    /\ UNCHANGED <<callerVars, fs, fs0, disk,
                   sales_df, sales_cleaned, inv_df, inv_cleaned, exc>>

\* Lines 91-92.
InventorySkip ==
    /\ pc = "inv_skip"
    /\ print(INV_SKIPPED)
    /\ pc' = "finish"
    /\ UNCHANGED <<callerVars, fs, fs0, disk,
                   sales_df, sales_cleaned, inv_df, inv_cleaned, exc>>

\* Lines 94-95.
InventoryExcept ==
    /\ pc = "inv_except"
    /\ print(Line(INV_ERROR, exc))
    /\ pc' = "finish"
    /\ UNCHANGED <<callerVars, fs, fs0, disk,
                   sales_df, sales_cleaned, inv_df, inv_cleaned, exc>>

\* Line 97.
Finish ==
    /\ pc = "finish"
    /\ print(COMPLETED)
    /\ pc' = "done"
    /\ UNCHANGED <<callerVars, fs, fs0, disk,
                   sales_df, sales_cleaned, inv_df, inv_cleaned, exc>>

\* The raw files and the earlier outputs a run of main finds.
RawSales ==
    {ABSENT, UNREADABLE,
     Csv(Frame(SALES_REQUIRED, <<>>)),
     Csv(Frame(SALES_REQUIRED, <<BlankSalesRow, SalesRow(NaN, Text("10"), NaN)>>)),
     Csv(Frame(SALES_REQUIRED \ {"Tax"}, <<>>))}

RawInventory ==
    {ABSENT, UNREADABLE,
     Csv(Frame(INVENTORY_REQUIRED,
               <<[c \in INVENTORY_REQUIRED |-> IF c = "Brand" THEN NaN ELSE Text("x")]>>)),
     Csv(Frame(INVENTORY_REQUIRED \ {"Brand"}, <<>>))}

\* What an earlier run left at an output path.
OLD == Csv(Frame({"OrderID"}, <<[c \in {"OrderID"} |-> Text("earlier run")]>>))

InitMain ==
    /\ pc = "sales_read"
    /\ fn = "main" /\ df = NONE /\ cleaned = NONE /\ recleaned = NONE
    /\ \E sales \in RawSales, inventory \in RawInventory, earlier \in {ABSENT, OLD} :
          fs = [p \in Paths |->
                    IF p = SALES_RAW THEN sales
                    ELSE IF p = INV_RAW THEN inventory
                    ELSE earlier]
    /\ fs0 = fs
    /\ disk \in [Outputs -> {"ok", "refused", "truncated"}]
    /\ stdout = <<>>
    /\ sales_df = NONE /\ sales_cleaned = NONE
    /\ inv_df = NONE /\ inv_cleaned = NONE /\ exc = NONE

NextMain ==
    \/ SalesRead \/ SalesClean \/ SalesWriteProcessed \/ SalesWriteDaily
    \/ SalesSaved \/ SalesExcept
    \/ InventoryExists \/ InventoryRead \/ InventoryClean
    \/ InventoryWriteProcessed \/ InventoryWriteDaily
    \/ InventorySaved \/ InventorySkip \/ InventoryExcept
    \/ Finish

\* main is one sequential thread: a step that can be taken is taken.
MainSpec == InitMain /\ [][NextMain]_vars /\ WF_vars(NextMain)

-----------------------------------------------------------------------------
(* Properties of the transforms, stated of a call that has come back *)

Called == pc \in {"raised", "returned", "returned_again"}
HasReturned == pc \in {"returned", "returned_again"}
SalesReturned == HasReturned /\ fn = "clean_sales"

Required == IF fn = "clean_sales" THEN SALES_REQUIRED ELSE INVENTORY_REQUIRED

\* The input rows that no earlier input row equals, and the input row the
\* k-th output row comes from.
FirstOccurrences ==
    {i \in DOMAIN df.rows : \A j \in DOMAIN df.rows : j < i => df.rows[j] # df.rows[i]}
Origin(k) ==
    CHOOSE i \in FirstOccurrences :
        Cardinality({j \in FirstOccurrences : j < i}) = k - 1

InRow(k) == df.rows[Origin(k)]
OutRow(k) == cleaned.df.rows[k]

\* C1: the transform fails exactly when a required column is absent from the
\* input's columns, and the error names exactly the required columns that
\* are absent.
C1_ValidationNamesMissing ==
    Called =>
        /\ cleaned.raised <=> (\E c \in Required : c \notin df.columns)
        /\ cleaned.raised =>
              cleaned.missing = {c \in Required : c \notin df.columns}

C1_Witness ==
    /\ pc = "raised" /\ fn = "clean_sales"
    /\ "Notes" \in df.columns
    /\ cleaned.missing = {"Tax", "City"}

NoNullColumns ==
    {"Quantity", "UnitPrice", "Discount", "Tax", "ShippingCost", "TotalAmount",
     "PaymentMethod", "OrderStatus", "City", "State", "Country"}

\* C2: after clean_sales returns, none of the eleven filled columns holds a
\* null in any output row.
C2_NoNullsAfterCleaning ==
    SalesReturned =>
        \A k \in DOMAIN cleaned.df.rows :
            \A c \in NoNullColumns : ~IsNull(OutRow(k)[c])

\* C3: a row whose TotalAmount was null or unparsable gets its filled Quantity
\* times its filled UnitPrice, a row whose TotalAmount was a number keeps it;
\* Quantity empty, UnitPrice 10, TotalAmount empty gives Quantity 1 and
\* TotalAmount 10.
C3_TotalAmountFill ==
    SalesReturned =>
        \A k \in DOMAIN cleaned.df.rows :
            LET total == to_numeric(InRow(k)["TotalAmount"])
                quantity == to_numeric(InRow(k)["Quantity"])
            IN  /\ OutRow(k)["Quantity"] =
                      IF IsNull(quantity) THEN Int2Num(1) ELSE quantity
                /\ IF IsNull(total)
                   THEN OutRow(k)["TotalAmount"] =
                            Mul(OutRow(k)["Quantity"], OutRow(k)["UnitPrice"])
                   ELSE OutRow(k)["TotalAmount"] = total
                /\ (/\ IsNull(InRow(k)["Quantity"])
                    /\ IsNull(InRow(k)["TotalAmount"])
                    /\ InRow(k)["UnitPrice"] \in {Text("10"), Int2Num(10)})
                   => /\ OutRow(k)["Quantity"] = Int2Num(1)
                      /\ OutRow(k)["TotalAmount"] = Int2Num(10)

C3_Witness ==
    /\ SalesReturned
    /\ \E k \in DOMAIN cleaned.df.rows :
          /\ InRow(k) = SalesRow(NaN, Text("10"), NaN)
          /\ OutRow(k)["TotalAmount"] = Int2Num(10)
    /\ \E k \in DOMAIN cleaned.df.rows :
          /\ InRow(k) = SalesRow(Int2Num(2), NaN, NaN)
          /\ OutRow(k)["TotalAmount"] = Int2Num(20)

\* C4: the transform returns as many rows as the input has distinct rows,
\* rows compared on every column as read; never more rows than the input, and
\* no row is dropped for malformed or missing values.
C4_RowCount ==
    HasReturned =>
        /\ Len(cleaned.df.rows) =
              Cardinality({df.rows[i] : i \in DOMAIN df.rows})
        /\ Len(cleaned.df.rows) <= Len(df.rows)

C4_Witness ==
    /\ pc = "returned" /\ fn = "clean_sales"
    /\ Len(df.rows) = 3 /\ Len(cleaned.df.rows) = 2
    /\ df.rows[1] = df.rows[3]
    /\ df.rows[2] = MessySalesRow

\* C5: clean_sales applied to its own output returns that output: the same
\* rows in the same order with the same values.
C5_Idempotent == pc = "returned_again" => recleaned = cleaned

\* The UnitPrice values that parse, of the input rows no earlier row equals,
\* and the middle of them once sorted.
Price(i) == to_numeric(df.rows[i]["UnitPrice"])

RECURSIVE ParsedPrices(_)
ParsedPrices(i) ==
    IF i > Len(df.rows) THEN <<>>
    ELSE (IF i \in FirstOccurrences /\ ~IsNull(Price(i)) THEN <<Price(i)>> ELSE <<>>)
         \o ParsedPrices(i + 1)

RECURSIVE Insert(_, _)
Insert(x, sorted) ==
    IF sorted = <<>> THEN <<x>>
    ELSE IF LessEq(x, Head(sorted)) THEN <<x>> \o sorted
    ELSE <<Head(sorted)>> \o Insert(x, Tail(sorted))

RECURSIVE Sort(_)
Sort(seq) == IF seq = <<>> THEN <<>> ELSE Insert(Head(seq), Sort(Tail(seq)))

MiddleOfSorted ==
    LET sorted == Sort(ParsedPrices(1))
        n == Len(sorted)
    IN  IF n = 0 THEN NaN
        ELSE IF n % 2 = 1 THEN sorted[(n + 1) \div 2]
        ELSE Mean2(sorted[n \div 2], sorted[n \div 2 + 1])

\* C6: a row whose UnitPrice is null after coercion gets the median of the
\* UnitPrice values that are numbers after coercion, taken over the rows left
\* by duplicate removal and before any fill; a row whose UnitPrice parsed
\* keeps its number.
C6_UnitPriceMedianFill ==
    SalesReturned =>
        \A k \in DOMAIN cleaned.df.rows :
            IF IsNull(Price(Origin(k)))
            THEN OutRow(k)["UnitPrice"] = MiddleOfSorted
            ELSE OutRow(k)["UnitPrice"] = Price(Origin(k))

\* A duplicated 2, a 5 and an unparsable price: the median is 3.5 as taken
\* after duplicate removal.
C6_Witness ==
    /\ SalesReturned
    /\ Len(df.rows) = 4 /\ Len(cleaned.df.rows) = 3
    /\ df.rows[1] = df.rows[2]
    /\ Price(1) = Int2Num(2) /\ Price(3) = Int2Num(5)
    /\ df.rows[4]["UnitPrice"] = Text("n/a")
    /\ OutRow(3)["UnitPrice"] = Number(7, 2)

-----------------------------------------------------------------------------
(* Properties of main *)

Printed(line) == \E i \in DOMAIN stdout : stdout[i] = line
PrintedText(text) == \E i \in DOMAIN stdout : stdout[i].text = text

\* What the run's inputs say of each pipeline: whether it fails before its
\* first write, and the table it is to write.
SalesFailsEarly ==
    \/ fs0[SALES_RAW].kind # "csv"
    \/ ~(SALES_REQUIRED \subseteq fs0[SALES_RAW].frame.columns)
InventoryFailsEarly ==
    \/ fs0[INV_RAW].kind = "unreadable"
    \/ /\ fs0[INV_RAW].kind = "csv"
       /\ ~(INVENTORY_REQUIRED \subseteq fs0[INV_RAW].frame.columns)
InventoryRuns == fs0[INV_RAW].kind = "csv" /\ ~InventoryFailsEarly

SalesTable == Csv(clean_sales(fs0[SALES_RAW].frame).df)
InventoryTable == Csv(clean_inventory(fs0[INV_RAW].frame).df)

\* What a write of table to path p leaves there.
AfterWrite(p, table) ==
    CASE disk[p] = "ok" -> table
      [] disk[p] = "refused" -> fs0[p]
      [] OTHER -> TRUNCATED

\* The outcome of the sales pipeline, from the sales file and the two sales
\* output paths alone.
ExpectedSalesLine ==
    CASE fs0[SALES_RAW].kind = "absent" -> Line(SALES_ERROR, FileNotFoundError)
      [] fs0[SALES_RAW].kind = "unreadable" -> Line(SALES_ERROR, ParserError)
      [] SalesFailsEarly ->
            Line(SALES_ERROR,
                 ValueError(SALES_REQUIRED \ fs0[SALES_RAW].frame.columns))
      [] {disk[SALES_PROCESSED], disk[SALES_DAILY]} # {"ok"} ->
            Line(SALES_ERROR, OSError)
      [] OTHER -> SALES_SAVED
ExpectedSalesProcessed ==
    IF SalesFailsEarly THEN fs0[SALES_PROCESSED]
    ELSE AfterWrite(SALES_PROCESSED, SalesTable)
ExpectedSalesDaily ==
    IF SalesFailsEarly \/ disk[SALES_PROCESSED] # "ok" THEN fs0[SALES_DAILY]
    ELSE AfterWrite(SALES_DAILY, SalesTable)

SalesLines == {i \in DOMAIN stdout :
                  stdout[i] = SALES_SAVED \/ stdout[i].text = SALES_ERROR}
InventoryLines == {i \in DOMAIN stdout :
                      stdout[i] \in {INV_LOADED, INV_SKIPPED}
                      \/ stdout[i].text = INV_ERROR}

\* C7: whatever becomes of the sales step, it reports its failure, the
\* inventory step runs after it, no exception leaves main, and main reaches
\* its final status line.
C7_BothPipelinesRun ==
    /\ [](pc # "crashed")
    /\ <>(pc = "done")
    /\ [](pc = "done" =>
            /\ stdout[Len(stdout)] = COMPLETED
            /\ (SalesFailsEarly \/ {disk[SALES_PROCESSED], disk[SALES_DAILY]} # {"ok"})
                  => PrintedText(SALES_ERROR)
            /\ \E i \in SalesLines : \E j \in InventoryLines : i < j)

C7_Witness ==
    /\ pc = "done"
    /\ Printed(Line(SALES_ERROR, ValueError({"Tax"})))
    /\ Printed(INV_SAVED)

\* C8: when the inventory file is absent, main reports the skip and no
\* inventory error, leaves both inventory outputs as they were, and the sales
\* pipeline ends as the sales inputs alone determine, inventory file or not.
C8_InventorySkip ==
    pc = "done" =>
        /\ fs0[INV_RAW] = ABSENT =>
              /\ Printed(INV_SKIPPED)
              /\ ~PrintedText(INV_ERROR) /\ ~Printed(INV_LOADED)
              /\ fs[INV_PROCESSED] = fs0[INV_PROCESSED]
              /\ fs[INV_DAILY] = fs0[INV_DAILY]
        /\ \A i \in SalesLines : stdout[i] = ExpectedSalesLine
        /\ SalesLines # {}
        /\ fs[SALES_PROCESSED] = ExpectedSalesProcessed
        /\ fs[SALES_DAILY] = ExpectedSalesDaily

C8_Witness ==
    /\ pc = "done"
    /\ fs0[INV_RAW] = ABSENT /\ fs0[INV_PROCESSED] = OLD
    /\ Printed(SALES_SAVED) /\ Printed(INV_SKIPPED)

\* C9, as claimed: at the end of a run, a processed copy written in that run
\* comes with an identical dated copy, also when a write failed.
C9_CopiesAlwaysIdentical ==
    pc = "done" =>
        /\ (fs[SALES_PROCESSED] # fs0[SALES_PROCESSED]
               /\ fs[SALES_PROCESSED].kind = "csv")
              => fs[SALES_DAILY] = fs[SALES_PROCESSED]
        /\ (fs[INV_PROCESSED] # fs0[INV_PROCESSED]
               /\ fs[INV_PROCESSED].kind = "csv")
              => fs[INV_DAILY] = fs[INV_PROCESSED]

\* C9, amended: once "cleaned and saved" is printed for a dataset, its
\* processed copy and its dated copy both hold the cleaned table; a run that
\* ends with a new processed copy and a different dated copy has reported a
\* write error for that dataset and not "cleaned and saved".
C9_SavedMeansBothCopies ==
    /\ Printed(SALES_SAVED) =>
          fs[SALES_PROCESSED] = SalesTable /\ fs[SALES_DAILY] = SalesTable
    /\ Printed(INV_SAVED) =>
          fs[INV_PROCESSED] = InventoryTable /\ fs[INV_DAILY] = InventoryTable
    /\ pc = "done" =>
          /\ (fs[SALES_PROCESSED] # fs0[SALES_PROCESSED]
                 /\ fs[SALES_DAILY] # fs[SALES_PROCESSED])
                => Printed(Line(SALES_ERROR, OSError)) /\ ~Printed(SALES_SAVED)
          /\ (fs[INV_PROCESSED] # fs0[INV_PROCESSED]
                 /\ fs[INV_DAILY] # fs[INV_PROCESSED])
                => Printed(Line(INV_ERROR, OSError)) /\ ~Printed(INV_SAVED)

C9_Witness ==
    /\ pc = "done"
    /\ Printed(SALES_SAVED) /\ InventoryRuns
    /\ fs[SALES_PROCESSED] = SalesTable /\ fs[SALES_DAILY] = SalesTable
    /\ fs[INV_PROCESSED] = InventoryTable /\ fs[INV_DAILY] = TRUNCATED
    /\ Printed(Line(INV_ERROR, OSError))

\* C10: a pipeline whose raw file cannot be read or lacks a required column
\* leaves both of its output files as they were, and an output file never
\* holds anything but what it held, the whole cleaned table, or the remains of
\* a broken write.
C10_EarlyFailureWritesNothing ==
    /\ SalesFailsEarly =>
          /\ fs[SALES_PROCESSED] = fs0[SALES_PROCESSED]
          /\ fs[SALES_DAILY] = fs0[SALES_DAILY]
    /\ InventoryFailsEarly =>
          /\ fs[INV_PROCESSED] = fs0[INV_PROCESSED]
          /\ fs[INV_DAILY] = fs0[INV_DAILY]
    /\ ~SalesFailsEarly =>
          \A p \in {SALES_PROCESSED, SALES_DAILY} :
              fs[p] \in {fs0[p], TRUNCATED, SalesTable}
    /\ InventoryRuns =>
          \A p \in {INV_PROCESSED, INV_DAILY} :
              fs[p] \in {fs0[p], TRUNCATED, InventoryTable}

C10_Witness ==
    /\ pc = "done"
    /\ Printed(Line(SALES_ERROR, ValueError({"Tax"})))
    /\ disk[SALES_PROCESSED] = "ok" /\ disk[SALES_DAILY] = "ok"
    /\ fs0[SALES_PROCESSED] = OLD
    /\ fs[SALES_PROCESSED] = OLD /\ fs[SALES_DAILY] = OLD
    /\ Printed(Line(INV_ERROR, ParserError))

=============================================================================
